---------------------------- MODULE Spec2Model ----------------------------
(***************************************************************************)
(* Model of budgetizer.cpp: the feasibility check (isValid), the cost and  *)
(* time scorers, the inclusive-cache workload simulator                    *)
(* (computeAccessFractions) and the exhaustive configuration search        *)
(* (findBestConfig).                                                       *)
(*                                                                         *)
(* Indexing is 1-based: tier t of the model is techs[t-1] of the source.   *)
(*                                                                         *)
(* Numbers.  Every quantity of the source is a binary32 float.  Sizes,     *)
(* capacities and costs are integer valued in every input drawn here, and  *)
(* their sums, differences and products are rounded the way binary32       *)
(* rounds them (fl: 24 significant bits, round to nearest, ties to even).  *)
(* Fractions and times are quotients; they are carried as exact rationals  *)
(* <<n, d>> in lowest terms (d > 0).  numeric_limits<float>::max() is the  *)
(* pair <<1, 0>>, which the cross-multiplying comparison places above every*)
(* rational.                                                               *)
(***************************************************************************)
EXTENDS Integers, Sequences, FiniteSets, TLC

VARIABLES
    techs,                \* the tier catalog (global vector<Tech>)
    workload,             \* argument of findBestConfig / isValid / computeAccessFractions
    costLimit,            \* argument of findBestConfig
    optimizeThroughput,   \* argument of findBestConfig
    config,               \* the configuration under enumeration / under test
    accessFractions,      \* scratch buffer of findBestConfig
    bestCost, bestTime, bestConfig, bestAccessFractions,
    configPos,            \* depth of the active enumerate() frame (N+1 = leaf)
    count,                \* loop variable `count` of every enumerate() frame
    pc,                   \* position of findBestConfig
    leaves,               \* history: configurations evaluated at a leaf, in order
    sim,                  \* locals and output buffer of computeAccessFractions
    valid,                \* outcome of the last isValid call
    calls,                \* number of computeAccessFractions calls started
    firstOut              \* history: output of the first completed call

vars == << techs, workload, costLimit, optimizeThroughput, config,
           accessFractions, bestCost, bestTime, bestConfig,
           bestAccessFractions, configPos, count, pc, leaves,
           sim, valid, calls, firstOut >>

---------------------------------------------------------------------------
(* Bounds of the model *)

MaxSize == 3
MaxGroups == 2
MaxLimit == 6
MaxCount == 3
MaxCalls == 2
MaxOverrun == 2

(* Program constants *)

FLT_MANT_DIG == 24

---------------------------------------------------------------------------
(* binary32 arithmetic *)

\* Rounding of a non-negative integer below 2^31 to 24 significant bits,
\* round-to-nearest, ties-to-even.
fl(x) ==
    IF x < 2^FLT_MANT_DIG THEN x
    ELSE LET e   == Cardinality({k \in 0..6 : x >= 2^(FLT_MANT_DIG + k)})
             ulp == 2^e
             q   == x \div ulp
             r   == x % ulp
         IN  IF 2*r > ulp \/ (2*r = ulp /\ q % 2 = 1)
             THEN (q + 1) * ulp
             ELSE q * ulp

RECURSIVE GCD(_, _)
GCD(a, b) == IF b = 0 THEN a ELSE GCD(b, a % b)

Rat(n, d) == LET g == GCD(n, d) IN IF n = 0 THEN <<0, 1>> ELSE <<n \div g, d \div g>>

Zero == <<0, 1>>
One == <<1, 1>>
FLT_MAX == <<1, 0>>

RatAdd(a, b) == Rat(a[1]*b[2] + b[1]*a[2], a[2]*b[2])
RatSub(a, b) == Rat(a[1]*b[2] - b[1]*a[2], a[2]*b[2])
RatMul(a, b) == Rat(a[1]*b[1], a[2]*b[2])
RatLess(a, b) == a[1]*b[2] < b[1]*a[2]

RECURSIVE RatSum(_)
RatSum(s) == IF s = <<>> THEN Zero ELSE RatAdd(RatSum(SubSeq(s, 1, Len(s) - 1)), s[Len(s)])

---------------------------------------------------------------------------
(* The catalog *)

N == Len(techs)

Tech(name, capacity, cost, IOs, latency, max) ==
    [name |-> name, capacity |-> capacity, cost |-> cost, IOs |-> IOs,
     latency |-> latency, max |-> max]

\* The catalog of the source.  Capacities are in units of 4 KiB
\* (64 GB = 2^24 units); binary32 rounding is invariant under this scaling.
Budgetizer ==
    << Tech("RAM", 2^24, 500, 10000000, <<1, 10000000>>, 16),
       Tech("NVM", 2^26, 500,  5000000, <<1,  2500000>>,  8),
       Tech("SSD", 2^28, 500,   500000, <<1,    10000>>, 16),
       Tech("HDD", 2^30, 200,      100, <<1,      100>>, 16) >>

\* Scenario 1 of the specification.
Scenario1 == << Tech("T0", 100, 10, 1000, <<1, 1000000>>, 5) >>

\* A three-tier catalog whose two lower tiers tie in cost and IOs.
Small3 ==
    << Tech("A", 2, 2, 4, <<1, 4>>, 3),
       Tech("B", 3, 1, 2, <<1, 2>>, 2),
       Tech("C", 4, 1, 2, <<1, 1>>, 2) >>

\* A two-tier catalog with an expensive fast tier.
Small2 ==
    << Tech("A", 1, 3, 4, <<1, 4>>, 3),
       Tech("B", 3, 1, 1, <<1, 1>>, 3) >>

---------------------------------------------------------------------------
(* isValid, lines 43-59 *)

RECURSIVE sumSpaceNeeded(_)
sumSpaceNeeded(w) ==
    IF w = <<>> THEN 0
    ELSE fl(sumSpaceNeeded(SubSeq(w, 1, Len(w) - 1)) + w[Len(w)].size)

\* config[t] * techs[t].capacity
totalCapacity(c, t) == fl(c[t] * techs[t].capacity)

RECURSIVE indexesUpTo(_, _)
indexesUpTo(c, t) ==
    IF t = 0 THEN <<>>
    ELSE IF c[t] # 0 THEN Append(indexesUpTo(c, t - 1), t)
         ELSE indexesUpTo(c, t - 1)

indexes(c) == indexesUpTo(c, Len(c))

\* "undefined" stands for indexes.back() on an empty vector.
isValidFlipped(c, w) ==
    IF c[1] = 0 THEN "false"
    ELSE LET ix == indexes(c) IN
         IF \E i \in 2..Len(ix) :
                totalCapacity(c, ix[i]) < totalCapacity(c, ix[i-1])
         THEN "false"
         ELSE IF ix = <<>> THEN "undefined"
         ELSE IF totalCapacity(c, ix[Len(ix)]) > sumSpaceNeeded(w)
         THEN "false"
         ELSE "true"

isValidNoRamCheck(c, w) ==
    LET ix == indexes(c) IN
    IF \E i \in 2..Len(ix) :
           totalCapacity(c, ix[i]) < totalCapacity(c, ix[i-1])
    THEN "false"
    ELSE IF ix = <<>> THEN "undefined"
    ELSE IF totalCapacity(c, ix[Len(ix)]) < sumSpaceNeeded(w)
    THEN "false"
    ELSE "true"

isValidResult(c, w) ==
    IF c[1] = 0 THEN "false"
    ELSE LET ix == indexes(c) IN
         IF \E i \in 2..Len(ix) :
                totalCapacity(c, ix[i]) < totalCapacity(c, ix[i-1])
         THEN "false"
         ELSE IF ix = <<>> THEN "undefined"
         ELSE IF totalCapacity(c, ix[Len(ix)]) < sumSpaceNeeded(w)
         THEN "false"
         ELSE "true"

isValid(c, w) == isValidResult(c, w) = "true"

---------------------------------------------------------------------------
(* Scorers, lines 61-82 *)

RECURSIVE configCostUpTo(_, _)
configCostUpTo(c, i) ==
    IF i = 0 THEN 0
    ELSE fl(configCostUpTo(c, i - 1) + fl(c[i] * techs[i].cost))

\* the float result, as a pair comparable with FLT_MAX
configCost(c) == <<configCostUpTo(c, Len(techs)), 1>>

avgTimePerAccess(fr) ==
    RatSum([i \in 1..Len(fr) |-> RatMul(fr[i], Rat(1, techs[i].IOs))])

avgLatencyPerAccess(fr) ==
    RatSum([i \in 1..Len(fr) |-> RatMul(fr[i], techs[i].latency)])

---------------------------------------------------------------------------
(* computeAccessFractions, lines 98-118 *)

Zeros == [t \in 1..N |-> Zero]

fillNothing(buf) == buf

\* line 99
fill(buf) == [t \in 1..Len(buf) |-> Zero]

\* The for loop takes its next element or the function returns.
nextGroup(st, w) ==
    IF st.gi < Len(w)
    THEN [st EXCEPT !.gi = st.gi + 1, !.g = w[st.gi + 1], !.pc = "loop"]
    ELSE [st EXCEPT !.gi = st.gi + 1, !.pc = "done"]

\* lines 99-102: the state on entry to the first iteration
enter(w, c, buf) ==
    nextGroup([pc |-> "idle", tech |-> 1, techCapacity |-> totalCapacity(c, 1),
               gi |-> 0, g |-> [fraction |-> Zero, size |-> 0],
               fractionsOut |-> fill(buf)], w)

\* line 104
overflows(st) == st.g.size > st.techCapacity

\* line 105
share(st) == RatMul(Rat(st.techCapacity, st.g.size), st.g.fraction)

\* fractionsOut[tech] += x; a store past the end does not land in the buffer
accumulate(st, x) ==
    IF st.tech <= Len(st.fractionsOut)
    THEN [st.fractionsOut EXCEPT ![st.tech] = RatAdd(@, x)]
    ELSE st.fractionsOut

advanceKeepFraction(st, c) ==
    [st EXCEPT !.fractionsOut = accumulate(st, share(st)),
               !.tech = st.tech + 1,
               !.techCapacity = totalCapacity(c, st.tech + 1)]

\* lines 105-110, for tech+1 inside the catalog
advance(st, c) ==
    [st EXCEPT !.fractionsOut = accumulate(st, share(st)),
               !.g.fraction = RatSub(st.g.fraction, share(st)),
               !.tech = st.tech + 1,
               !.techCapacity = totalCapacity(c, st.tech + 1)]

\* lines 112-114 and the step of the for loop
place(st, w) ==
    nextGroup([st EXCEPT !.fractionsOut = accumulate(st, st.g.fraction),
                         !.techCapacity = fl(st.techCapacity - st.g.size)], w)

\* The loop run to its end; "overrun" marks the read of config[tech] and
\* techs[tech] with tech past the last tier (line 110).
RECURSIVE run(_, _, _)
run(st, w, c) ==
    IF st.pc # "loop" THEN st
    ELSE IF overflows(st)
         THEN IF st.tech < N THEN run(advance(st, c), w, c)
              ELSE [st EXCEPT !.pc = "overrun"]
         ELSE run(place(st, w), w, c)

computeAccessFractions(w, c, buf) == run(enter(w, c, buf), w, c)

---------------------------------------------------------------------------
(* findBestConfig, lines 120-167 *)

withinBudget(cost, limit) == ~RatLess(limit, cost)

acceptsAnyCost(v, cost, limit) == v = "true"

\* line 135
underBudget(cost, limit) == RatLess(cost, limit)

\* lines 133-135: the leaf is scored
accepts(v, cost, limit) == v = "true" /\ underBudget(cost, limit)

betterOrEqual(time, cost, bTime, bCost) ==
    RatLess(time, bTime) \/ (time = bTime /\ ~RatLess(bCost, cost))

\* line 138
better(time, cost, bTime, bCost) ==
    RatLess(time, bTime) \/ (time = bTime /\ RatLess(cost, bCost))

\* line 137
timeOf(fr) ==
    IF optimizeThroughput THEN avgTimePerAccess(fr) ELSE avgLatencyPerAccess(fr)

Best(time, cfg, fr, cost) ==
    [bestTime |-> time, bestConfig |-> cfg, bestAccessFractions |-> fr,
     bestCost |-> cost]

recordBestSharedBuffer(cur, time, cfg, fr, cost) ==
    IF better(time, cost, cur.bestTime, cur.bestCost)
    THEN Best(time, cfg, fr, cost)
    ELSE [cur EXCEPT !.bestAccessFractions = fr]

\* lines 138-143
recordBest(cur, time, cfg, fr, cost) ==
    IF better(time, cost, cur.bestTime, cur.bestCost)
    THEN Best(time, cfg, fr, cost)
    ELSE cur

\* the slots of the simulator and of the isValid driver when they are not in use
SimIdle(buf) ==
    [pc |-> "idle", tech |-> 1, techCapacity |-> 0, gi |-> 0,
     g |-> [fraction |-> Zero, size |-> 0], fractionsOut |-> buf]

\* lines 121-126, and line 155 entering enumerate(config, 0)
InitSearch(T, w, limit, mode) ==
    /\ techs = T
    /\ workload = w
    /\ costLimit = <<limit, 1>>
    /\ optimizeThroughput = mode
    /\ config = [t \in 1..Len(T) |-> 0]
    /\ accessFractions = [t \in 1..Len(T) |-> Zero]
    /\ bestCost = FLT_MAX
    /\ bestTime = FLT_MAX
    /\ bestConfig = [t \in 1..Len(T) |-> 0]
    /\ bestAccessFractions = [t \in 1..Len(T) |-> Zero]
    /\ configPos = 1
    /\ count = [t \in 1..Len(T) |-> 0]
    /\ pc = "enumerate"
    /\ leaves = <<>>
    /\ sim = SimIdle(<<>>)
    /\ valid = "unchecked"
    /\ calls = 0
    /\ firstOut = <<>>

simVars == << sim, valid, calls, firstOut >>
inputVars == << techs, workload, costLimit, optimizeThroughput >>
bestVars == << bestCost, bestTime, bestConfig, bestAccessFractions >>

\* line 130: configPos == techs.size()
atLeaf == pc = "enumerate" /\ configPos = N + 1

\* line 149: a frame at its for statement
inLoop == pc = "enumerate" /\ configPos \in 1..N

loopContinuesInclusive(cnt, max) == cnt <= max

\* line 149: count < techs[configPos].max
loopContinues(cnt, max) == cnt < max

\* lines 149-151: one iteration of the for loop of the frame at configPos
enumerateIter ==
    /\ inLoop
    /\ loopContinues(count[configPos], techs[configPos].max)
    /\ config' = [config EXCEPT ![configPos] = count[configPos]]
    /\ configPos' = configPos + 1
    /\ count' = IF configPos < N THEN [count EXCEPT ![configPos + 1] = 0]
                ELSE count
    /\ UNCHANGED << inputVars, accessFractions, bestVars, pc, leaves, simVars >>

\* the return to the caller: its loop variable is incremented (line 149), or
\* enumerate(config, 0) has returned and findBestConfig returns bestConfig
\* (lines 155-166)
backToCaller(p) ==
    IF p = 1
    THEN /\ pc' = "done"
         /\ UNCHANGED << configPos, count >>
    ELSE /\ pc' = pc
         /\ configPos' = p - 1
         /\ count' = [count EXCEPT ![p - 1] = @ + 1]

\* line 149 with the loop exhausted
enumerateReturn ==
    /\ inLoop
    /\ ~loopContinues(count[configPos], techs[configPos].max)
    /\ backToCaller(configPos)
    /\ UNCHANGED << inputVars, config, accessFractions, bestVars, leaves, simVars >>

\* lines 130-147
enumerateLeaf ==
    /\ atLeaf
    /\ leaves' = Append(leaves, config)
    /\ LET v    == isValidResult(config, workload)
           cost == configCost(config)
           r    == computeAccessFractions(workload, config, accessFractions)
           time == timeOf(r.fractionsOut)
           b    == recordBest(Best(bestTime, bestConfig, bestAccessFractions, bestCost),
                              time, config, r.fractionsOut, cost)
       IN  IF v = "undefined" \/ (accepts(v, cost, costLimit) /\ r.pc = "overrun")
           THEN /\ pc' = "undefined"
                /\ UNCHANGED << configPos, count, accessFractions, bestVars >>
           ELSE /\ backToCaller(N + 1)
                /\ IF accepts(v, cost, costLimit)
                   THEN /\ accessFractions' = r.fractionsOut
                        /\ bestTime' = b.bestTime
                        /\ bestConfig' = b.bestConfig
                        /\ bestAccessFractions' = b.bestAccessFractions
                        /\ bestCost' = b.bestCost
                   ELSE UNCHANGED << accessFractions, bestVars >>
    /\ UNCHANGED << inputVars, config, simVars >>

---------------------------------------------------------------------------
(* isValid and computeAccessFractions called on their own *)

searchVars == << costLimit, optimizeThroughput, accessFractions, bestVars,
                 configPos, count, pc, leaves >>

\* A caller holding a catalog, a workload, a configuration and an output
\* buffer with arbitrary contents.
InitSim(T, w, c, buf) ==
    /\ techs = T
    /\ workload = w
    /\ config = c
    /\ sim = SimIdle(buf)
    /\ valid = "unchecked"
    /\ calls = 0
    /\ firstOut = <<>>
    /\ costLimit = FLT_MAX
    /\ optimizeThroughput = TRUE
    /\ accessFractions = <<>>
    /\ bestCost = FLT_MAX
    /\ bestTime = FLT_MAX
    /\ bestConfig = <<>>
    /\ bestAccessFractions = <<>>
    /\ configPos = 0
    /\ count = <<>>
    /\ pc = "caller"
    /\ leaves = <<>>

\* line 133: isValid(config, workload)
validate ==
    /\ pc = "caller"
    /\ valid = "unchecked"
    /\ valid' = isValidResult(config, workload)
    /\ UNCHANGED << inputVars, config, searchVars, sim, calls, firstOut >>

\* the output of the first call that returns is remembered
returned(st) ==
    firstOut' = IF st.pc = "done" /\ calls = 1 THEN st.fractionsOut ELSE firstOut

\* line 136 and lines 99-102: the call, made on validated configurations only
simCall ==
    /\ pc = "caller"
    /\ valid = "true"
    /\ sim.pc \in {"idle", "done"}
    /\ calls < MaxCalls
    /\ sim' = enter(workload, config, sim.fractionsOut)
    /\ calls' = calls + 1
    /\ UNCHANGED << inputVars, config, searchVars, valid, firstOut >>

\* lines 104-110
simAdvance ==
    /\ sim.pc = "loop"
    /\ overflows(sim)
    /\ sim.tech < N
    /\ sim' = advance(sim, config)
    /\ UNCHANGED << inputVars, config, searchVars, valid, calls, firstOut >>

\* lines 111-114, then the next group or the return
simPlace ==
    /\ sim.pc = "loop"
    /\ ~overflows(sim)
    /\ sim' = place(sim, workload)
    /\ returned(sim')
    /\ UNCHANGED << inputVars, config, searchVars, valid, calls >>

\* lines 104-110 with tech on or past the last tier: line 110 reads
\* config[tech] and techs[tech] outside both vectors.  The behaviour is
\* undefined: the access faults, or it yields some capacity and the loop goes
\* on with its stores to fractionsOut[tech] landing outside the buffer.
simOverrun ==
    /\ sim.pc = "loop"
    /\ overflows(sim)
    /\ sim.tech >= N
    /\ \/ sim' = [sim EXCEPT !.pc = "crashed"]
       \/ /\ sim.tech < N + MaxOverrun
          /\ \E cap \in {0, sim.g.size} :
                sim' = [sim EXCEPT !.fractionsOut = accumulate(sim, share(sim)),
                                   !.g.fraction = RatSub(sim.g.fraction, share(sim)),
                                   !.tech = sim.tech + 1,
                                   !.techCapacity = cap]
    /\ UNCHANGED << inputVars, config, searchVars, valid, calls, firstOut >>

Ones(n) == [t \in 1..n |-> One]

\* the largest device-count cap of a catalog
MaxDevices(T) ==
    CHOOSE m \in {T[t].max : t \in 1..Len(T)} : \A t \in 1..Len(T) : T[t].max <= m

\* the Cartesian product of the device counts 0..max-1 per tier
ProductOf(T) ==
    {c \in [1..Len(T) -> 0..MaxDevices(T)] : \A t \in 1..Len(T) : c[t] < T[t].max}

---------------------------------------------------------------------------
(* Inputs *)

Fractions == {<<1, 2>>, One}

Groups(sizes) == {[fraction |-> f, size |-> s] : f \in Fractions, s \in sizes}

Workloads(sizes) == UNION {[1..n -> Groups(sizes)] : n \in 1..MaxGroups}

Init ==
    \/ \E T \in {Small3}, w \in Workloads(1..MaxSize),
          limit \in 0..MaxLimit, mode \in BOOLEAN :
          InitSearch(T, w, limit, mode)
    \/ \E w \in Workloads({50}), limit \in {10, 20, 1000}, mode \in BOOLEAN :
          InitSearch(Scenario1, w, limit, mode)

Next == enumerateIter \/ enumerateLeaf \/ enumerateReturn

Spec == Init /\ [][Next]_vars

InitSimSmall ==
    \E T \in {Small2, Small3} :
       \E w \in Workloads(0..MaxSize), c \in ProductOf(T),
          buf \in {[t \in 1..Len(T) |-> Zero], Ones(Len(T))} :
          InitSim(T, w, c, buf)

NextSim == validate \/ simCall \/ simAdvance \/ simPlace

SpecSim == InitSimSmall /\ [][NextSim]_vars

\* The catalog of the source with sizes at the precision limit of binary32.
InitSimF ==
    \E w \in Workloads({1, 2^FLT_MANT_DIG}), c \in [1..Len(Budgetizer) -> {0, 1}] :
       InitSim(Budgetizer, w, c, Ones(Len(Budgetizer)))

NextSimF == NextSim \/ simOverrun

SpecSimF == InitSimF /\ [][NextSimF]_vars

---------------------------------------------------------------------------
(* Notions the properties are stated in *)

ZeroConfig == [t \in 1..N |-> 0]

\* every configuration of the enumerated range
Product == ProductOf(techs)

\* the configurations of the enumerated range that are valid and cost
\* strictly less than the limit
Feasible ==
    {c \in Product : isValid(c, workload) /\ RatLess(configCost(c), costLimit)}

\* the selected time metric of a configuration
Score(c) == timeOf(computeAccessFractions(workload, c, Zeros).fractionsOut)

\* enumeration order: tier 1 most significant, the last tier innermost
EnumeratedBefore(a, b) ==
    \E t \in 1..N : a[t] < b[t] /\ \A u \in 1..(t - 1) : a[u] = b[u]

\* a is not after b in the order (time, cost, enumeration position)
NotAfter(a, b) ==
    \/ RatLess(Score(a), Score(b))
    \/ /\ Score(a) = Score(b)
       /\ \/ RatLess(configCost(a), configCost(b))
          \/ /\ configCost(a) = configCost(b)
             /\ (a = b \/ EnumeratedBefore(a, b))

Populated(c) == {t \in 1..Len(c) : c[t] # 0}

\* exact total capacity and exact working-set size
Capacity(c, t) == c[t] * techs[t].capacity

RECURSIVE SizeSum(_)
SizeSum(w) == IF w = <<>> THEN 0 ELSE SizeSum(Tail(w)) + Head(w).size

NonDecreasing(c) ==
    \A t1, t2 \in Populated(c) : t1 < t2 => Capacity(c, t1) <= Capacity(c, t2)

LastPopulated(c) == CHOOSE t \in Populated(c) : \A u \in Populated(c) : u <= t

Bigger(c) == {d \in [1..Len(c) -> 0..MaxCount] : \A t \in 1..Len(c) : d[t] >= c[t]}

FractionSum(w) == RatSum([i \in 1..Len(w) |-> w[i].fraction])

\* fractions of the groups the loop has not started yet
Pending(st, w) == RatSum([i \in 1..(Len(w) - st.gi) |-> w[st.gi + i].fraction])

\* The position of the enumeration as a number: the loop variables of the
\* active frames as digits (tier 1 most significant), then the depth, then
\* whether findBestConfig has returned.
Radix == 2 + MaxDevices(techs)

RECURSIVE Digits(_)
Digits(t) ==
    IF t = 0 THEN 0
    ELSE Digits(t - 1) * Radix + (IF t <= configPos THEN count[t] ELSE 0)

Position ==
    Digits(N) * (2 * N + 4) + 2 * configPos + (IF pc = "done" THEN 1 ELSE 0)

---------------------------------------------------------------------------
(* Properties *)

\* C1 (as stated): the configuration findBestConfig returns always costs
\* strictly less than the cost limit and always passes isValid.
C1_Claim ==
    pc = "done" =>
        RatLess(configCost(bestConfig), costLimit) /\ isValid(bestConfig, workload)

\* C1 (amended): when some configuration of the enumerated range is valid and
\* costs strictly less than the limit, the returned configuration costs
\* strictly less than the limit and passes isValid; when none is, the all-zero
\* configuration is returned, which fails isValid.
C1_Amended ==
    pc = "done" =>
        IF Feasible # {}
        THEN RatLess(configCost(bestConfig), costLimit) /\ isValid(bestConfig, workload)
        ELSE bestConfig = ZeroConfig /\ ~isValid(bestConfig, workload)

\* a search has returned although a valid configuration costing exactly the
\* limit has a strictly better time than the returned one
C1_Witness ==
    /\ pc = "done"
    /\ Feasible # {}
    /\ \E c \in Product :
          /\ isValid(c, workload)
          /\ configCost(c) = costLimit
          /\ RatLess(Score(c), bestTime)

\* C2: when a valid configuration under the limit exists, findBestConfig
\* returns the least of them in the order (selected time, cost, enumeration
\* position); Scenario 1 returns exactly one device.
C2_Theorem ==
    pc = "done" =>
        /\ Feasible # {} =>
              /\ bestConfig \in Feasible
              /\ \A c \in Feasible : NotAfter(bestConfig, c)
        /\ ( /\ techs = Scenario1
             /\ workload = << [fraction |-> One, size |-> 50] >>
             /\ costLimit = <<1000, 1>> ) => bestConfig = <<1>>

\* a search has returned one of several feasible configurations that tie on
\* both time and cost
C2_Witness ==
    /\ pc = "done"
    /\ \E c \in Feasible :
          /\ c # bestConfig
          /\ Score(c) = bestTime
          /\ configCost(c) = bestCost

\* C3 (as stated): if isValid accepts C, it accepts every C' that raises
\* device counts of C and lowers none.
C3_Claim ==
    valid = "true" => \A d \in Bigger(config) : isValid(d, workload)

\* C3 (amended): if isValid accepts C, it accepts every C' that raises device
\* counts of C, lowers none, and keeps the total capacities of its populated
\* tiers non-decreasing in tier order.
C3_Amended ==
    valid = "true" =>
        \A d \in Bigger(config) : NonDecreasing(d) => isValid(d, workload)

\* isValid has accepted a configuration of which a larger one, populating a
\* tier that was empty, keeps the capacity order
C3_Witness ==
    /\ valid = "true"
    /\ \E d \in Bigger(config) :
          /\ NonDecreasing(d)
          /\ Populated(d) # Populated(config)
          /\ d[1] > config[1]

\* C4: mass conservation: throughout the loop of computeAccessFractions the
\* fractions accumulated, the current group's remaining fraction and the
\* fractions of the groups not yet started add up to the input total, and on
\* return the output sums to the input total.
C4_Theorem ==
    /\ sim.pc = "loop" =>
          RatAdd(RatAdd(RatSum(sim.fractionsOut), sim.g.fraction),
                 Pending(sim, workload)) = FractionSum(workload)
    /\ sim.pc = "done" => RatSum(sim.fractionsOut) = FractionSum(workload)

\* a call has returned after splitting a group over two tiers, with a
\* workload of two groups
C4_Witness ==
    /\ sim.pc = "done"
    /\ Len(workload) = 2
    /\ sim.tech > 1
    /\ Cardinality({t \in 1..N : sim.fractionsOut[t] # Zero}) >= 2

\* C5: when no configuration of the enumerated range is valid and strictly
\* under the limit, findBestConfig ends with the all-zero configuration,
\* all-zero fractions, and best time and cost at their initial maximum.
C5_Theorem ==
    (pc = "done" /\ Feasible = {}) =>
        /\ bestConfig = ZeroConfig
        /\ bestAccessFractions = Zeros
        /\ bestTime = FLT_MAX
        /\ bestCost = FLT_MAX

\* a search has returned having met valid configurations, one of them costing
\* exactly the limit, and none under it
C5_Witness ==
    /\ pc = "done"
    /\ Feasible = {}
    /\ \E c \in Product : isValid(c, workload) /\ configCost(c) = costLimit

\* C6: every completed call of computeAccessFractions on the same workload
\* and valid configuration leaves the same output, whatever the buffer held
\* on entry, and no step of a call changes the workload or the configuration.
C6_Theorem ==
    /\ []((sim.pc = "done" /\ valid = "true") =>
            /\ sim.fractionsOut = firstOut
            /\ sim.fractionsOut =
                  computeAccessFractions(workload, config, Zeros).fractionsOut)
    /\ [][workload' = workload /\ config' = config]_vars

\* a second call has returned, the first one having started on a buffer of
\* non-zero garbage, with a non-zero output
C6_Witness ==
    /\ sim.pc = "done"
    /\ calls = 2
    /\ RatSum(sim.fractionsOut) # Zero

C8_Claim ==
    valid = "true" =>
        /\ sim.tech <= N
        /\ sim.techCapacity >= 0
        /\ sim.pc # "crashed"

C10_Theorem ==
    bestCost # FLT_MAX =>
        /\ bestCost = configCost(bestConfig)
        /\ bestAccessFractions =
              computeAccessFractions(workload, bestConfig, Zeros).fractionsOut
        /\ bestTime = timeOf(bestAccessFractions)

\* a later leaf has overwritten the scratch buffer without becoming the best
C10_Witness ==
    /\ bestCost # FLT_MAX
    /\ accessFractions # bestAccessFractions

=============================================================================
